---- MODULE Spec2Model ----
(***************************************************************************)
(* The peer-connection orchestration and signaling state machine of the    *)
(* useWebRTC hook (src/src/features/video-call/hooks/useWebRTC.ts).        *)
(*                                                                         *)
(* One step of the model is one turn of the browser's event loop: a        *)
(* socket event handler up to its first await, the continuation of a       *)
(* suspended handler after an await, a connection callback, a timer        *)
(* callback, the effect body or the effect cleanup.  Time is counted in    *)
(* milliseconds and advances in ticks of TickMs.                           *)
(***************************************************************************)
EXTENDS Integers, Sequences, FiniteSets, Bags, TLC

\* ------------------------------------------------------------- bounds
MaxPcs == 2          \* RTCPeerConnection objects ever constructed
MaxTasks == 2        \* handlers suspended at an await at the same time
MaxCand == 3         \* local ICE candidates ever gathered
MaxSnapshot == 3     \* length of an existing-users snapshot
TickMs == 10         \* granularity of the clock, in ms
MaxPending == 3      \* join requests waiting for the host at the same time

\* setTimeout(..., 50): the debounce delay of the ICE batching, in ms
DebounceMs == 50

Peers == {"A", "B"}
Names == {"n1", "n2"}
\* the display name the events of the main specification carry
PlainName == "n1"
NoPeer == "-"

\* the tracks of localStream (getUserMedia with audio and video)
LocalTracks == <<"audio", "video">>

VARIABLES
    subscribed,         \* the effect has run and its cleanup has not: handlers are registered
    connected,          \* the shared socket is connected (connect() / disconnect())
    connectionStatus,   \* useState: connecting | waiting | joined | rejected
    participants,       \* useState: sequence of Participant
    pcs,                \* every RTCPeerConnection constructed so far, by index
    peersRef,           \* peersRef.current: peer id -> index into pcs
    iceCandidateQueue,  \* iceCandidateQueue.current: peer id -> sequence of candidates
    timers,             \* armed setTimeout timers: [peer, left, cur]; cur: the handle
                        \* iceCandidateTimers.current holds for that peer
    tasks,              \* async handlers suspended at an await: a bag of continuations
    nextCand,           \* the next local candidate to be gathered
    sinceGather,        \* ms since the last candidate was queued for a peer, -1: queue empty
    pendingRequests,    \* useState: sequence of {userId, userName} awaiting the host
    localStream,        \* the localStream prop: the sequence of its tracks
    hasJoined,          \* useState of VideoCall: the user has pressed join
    listeners,          \* the shared socket's listeners per event: live (registered by
                        \* the running effect) and stale (registered by a run whose
                        \* cleanup has not removed them)
    media,              \* useMediaStream: stream (the camera stream is set), audio and
                        \* video (track.enabled of its tracks), isMicOn, isCameraOn,
                        \* isScreenSharing (useState)
    last,               \* the step taken last: [ev, peer, arg]
    effects             \* what the last step did, in program order

vars == <<subscribed, connected, connectionStatus, participants, pcs, peersRef,
          iceCandidateQueue, timers, tasks, nextCand, sinceGather, pendingRequests,
          localStream, hasJoined, media, listeners, last, effects>>

\* ------------------------------------------------------------- helpers
Eff(op, ev, peer, n) == [op |-> op, ev |-> ev, peer |-> peer, n |-> n]

Step(ev, peer) == [ev |-> ev, peer |-> peer, arg |-> <<>>]

StepWith(ev, peer, arg) == [ev |-> ev, peer |-> peer, arg |-> arg]

RECURSIVE SeqFilterIdx(_, _, _)
\* the elements s[i], i >= from, whose index is in keep, in order
SeqFilterIdx(s, keep, from) ==
    IF from > Len(s) THEN <<>>
    ELSE IF from \in keep THEN <<s[from]>> \o SeqFilterIdx(s, keep, from + 1)
    ELSE SeqFilterIdx(s, keep, from + 1)

Min(a, b) == IF a < b THEN a ELSE b

\* mutant: deleting one key empties the map
MapDeleteAll(m, k) == [x \in {} |-> 0]

\* Map.delete(key) on a function with a finite domain
MapDelete(m, k) == [x \in (DOMAIN m) \ {k} |-> m[x]]

\* Map.set(key, value)
MapSet(m, k, v) == [x \in (DOMAIN m) \cup {k} |-> IF x = k THEN v ELSE m[x]]

EmptyMap == [x \in {} |-> 0]

\* ------------------------------------------------------------- roster
NewParticipant(id, name) ==
    [id |-> id, name |-> name, stream |-> 0, isMicOn |-> TRUE, isCameraOn |-> TRUE]

\* mutant: the roster is never searched
InRosterNever(prev, id) == FALSE

\* prev.some(p => p.id === id)
InRoster(prev, id) == \E i \in 1..Len(prev) : prev[i].id = id

\* setParticipants(prev => prev.some(p => p.id === id) ? prev : [...prev, {...}])
AddParticipant(prev, id, name) ==
    IF InRoster(prev, id) THEN prev ELSE Append(prev, NewParticipant(id, name))

\* mutant: the departed peer stays in the roster
RemoveNobody(prev, id) == prev

\* setParticipants(prev => prev.filter(p => p.id !== id))
RemoveParticipant(prev, id) ==
    SeqFilterIdx(prev, {i \in 1..Len(prev) : prev[i].id # id}, 1)

\* mutant: the snapshot is taken as it comes
AllUsers(users) == users

\* users.filter((user, index, self) => index === self.findIndex(u => u.userId === user.userId))
UniqueUsers(users) ==
    SeqFilterIdx(users,
                 {i \in 1..Len(users) :
                     \A j \in 1..(i - 1) : users[j].userId # users[i].userId},
                 1)

\* ------------------------------------------------------------- connections
\* new RTCPeerConnection(config) followed by addTrack for every track of localStream:
\* one sender per track, named by the track it sends
NewPC(userId, isInitiator) ==
    [peer |-> userId, initiator |-> isInitiator, closed |-> FALSE,
     senders |-> localStream, sig |-> "stable", hasLocal |-> FALSE, hasRemote |-> FALSE]

\* pc.close(): signalingState becomes closed; a closed connection gathers no
\* candidate and applies no description
ClosePC(pc) ==
    [pc EXCEPT !.closed = TRUE, !.sig = "closed", !.hasLocal = FALSE, !.hasRemote = FALSE]

\* mutant: the lookup in the map finds nothing
HasPeerNever(userId) == FALSE

\* peersRef.current.get(userId) is defined
HasPeer(userId) == userId \in DOMAIN peersRef

LivePcs(p) == {i \in 1..Len(pcs) : pcs[i].peer = p /\ ~pcs[i].closed}

\* mutant: the timer map never has a handle
TimerOfNone(userId) == {}

\* the handle iceCandidateTimers.current holds for userId, as a set (empty: none)
TimerOf(userId) == {t \in timers : t.peer = userId /\ t.cur}

\* the socket dispatches an inbound event to a registered handler
Delivering == subscribed /\ connected

\* useMediaStream after initializeMedia (stream TRUE) or before it has resolved
MediaState(stream) ==
    [stream |-> stream, audio |-> TRUE, video |-> TRUE, isMicOn |-> TRUE,
     isCameraOn |-> TRUE, isScreenSharing |-> FALSE]

\* the events the effect registers a handler for with currentSocket.on
OnEvents ==
    {"waiting-for-approval", "join-approved", "join-rejected", "join-request",
     "user-joined", "media-status-update", "offer", "answer", "ice-candidate",
     "user-left", "existing-users"}

\* mutant: the cleanup forgets one event
OffEventsButOne == OnEvents \ {"media-status-update"}

\* the events the cleanup unsubscribes with currentSocket.off
OffEvents ==
    {"user-joined", "offer", "answer", "ice-candidate", "user-left", "existing-users",
     "waiting-for-approval", "join-approved", "join-rejected", "join-request",
     "media-status-update"}

SignalEvents == OnEvents \cup OffEvents

NoListeners == [live |-> 0, stale |-> 0]

\* currentSocket.on(e, handler) for every event of the effect: one more listener
Registered(ls) ==
    [e \in SignalEvents |->
        IF e \in OnEvents THEN [ls[e] EXCEPT !.live = ls[e].live + 1] ELSE ls[e]]

\* currentSocket.off(e) removes every listener of e; the listeners of an event the
\* cleanup does not name stay on the socket and belong to an exited run
Unregistered(ls) ==
    [e \in SignalEvents |->
        IF e \in OffEvents THEN NoListeners
        ELSE [live |-> 0, stale |-> ls[e].stale + ls[e].live]]

\* useWebRTC after construction
InitHook ==
    /\ listeners = [e \in SignalEvents |-> NoListeners]
    /\ subscribed = FALSE
    /\ connected = FALSE
    /\ connectionStatus = "connecting"
    /\ participants = <<>>
    /\ pcs = <<>>
    /\ peersRef = EmptyMap
    /\ iceCandidateQueue = EmptyMap
    /\ timers = {}
    /\ tasks = EmptyBag
    /\ nextCand = 1
    /\ sinceGather = [p \in Peers |-> -1]
    /\ pendingRequests = <<>>
    /\ localStream = LocalTracks
    /\ last = Step("init", NoPeer)
    /\ effects = <<>>

\* the hook as VideoCall drives it once the user has joined with the camera stream:
\* localStream is the stream, the effect is about to run
Init ==
    /\ InitHook
    /\ hasJoined = TRUE
    /\ media = MediaState(TRUE)

\* VideoCall after its first render: not joined, getUserMedia pending
InitRoom ==
    /\ InitHook
    /\ hasJoined = FALSE
    /\ media = MediaState(FALSE)


\* ------------------------------------------------------------- the room session
\* localStream: hasJoined ? stream : null
HasLocalStream == hasJoined /\ media.stream

\* the effect body: if (!localStream) return; connect(), emit join-room, register
\* the handlers
Join ==
    /\ HasLocalStream
    /\ ~subscribed
    /\ subscribed' = TRUE
    /\ listeners' = Registered(listeners)
    /\ connected' = TRUE
    /\ last' = Step("join", NoPeer)
    /\ effects' = <<Eff("connect", "", NoPeer, 0), Eff("emit", "join-room", NoPeer, 0),
                    Eff("on", "", NoPeer, 0)>>
    /\ UNCHANGED <<hasJoined, media, pendingRequests, localStream, connectionStatus, participants, pcs, peersRef, iceCandidateQueue,
                   timers, tasks, nextCand, sinceGather>>

RECURSIVE Ascending(_)
\* the elements of a finite set of integers, smallest first
Ascending(S) ==
    IF S = {} THEN <<>>
    ELSE LET m == CHOOSE x \in S : \A y \in S : x <= y
         IN <<m>> \o Ascending(S \ {m})

RECURSIVE SetToSeq(_)
SetToSeq(S) ==
    IF S = {} THEN <<>>
    ELSE LET m == CHOOSE x \in S : TRUE
         IN <<m>> \o SetToSeq(S \ {m})

\* mutant: the cleanup clears the map without closing the connections
ClosedByNobody == {}

\* peersRef.current.forEach(pc => pc.close()), in the map's insertion order
ClosedByCleanup == {peersRef[p] : p \in DOMAIN peersRef}

\* mutant: the cleanup clears the timer map without cancelling the timers
ClearedByNobody == {}

\* iceCandidateTimers.current.forEach(timer => clearTimeout(timer))
ClearedByCleanup == {t \in timers : t.cur}

\* the cleanup's operations in program order
CleanupEffects ==
    <<Eff("off", "", NoPeer, 0), Eff("emit", "leave-room", NoPeer, 0)>>
    \o [k \in 1..Cardinality(ClosedByCleanup) |->
            Eff("close", "", pcs[Ascending(ClosedByCleanup)[k]].peer,
                Ascending(ClosedByCleanup)[k])]
    \o [k \in 1..Cardinality(ClearedByCleanup) |->
            Eff("clearTimeout", "", SetToSeq(ClearedByCleanup)[k].peer, 0)]
    \o <<Eff("clearQueue", "", NoPeer, 0)>>

\* the effect cleanup: room exit
Exit ==
    /\ subscribed
    /\ subscribed' = FALSE
    /\ listeners' = Unregistered(listeners)
    /\ pcs' = [i \in 1..Len(pcs) |->
                 IF i \in ClosedByCleanup
                 THEN ClosePC(pcs[i]) ELSE pcs[i]]
    /\ peersRef' = EmptyMap
    /\ timers' = timers \ ClearedByCleanup
    /\ iceCandidateQueue' = EmptyMap
    /\ sinceGather' = [p \in Peers |-> -1]
    /\ last' = Step("exit", NoPeer)
    /\ effects' = CleanupEffects
    /\ UNCHANGED <<hasJoined, media, pendingRequests, localStream, connected, connectionStatus, participants, tasks, nextCand>>

\* ------------------------------------------------------------- admission
WaitingForApproval ==
    /\ Delivering
    /\ connectionStatus' = "waiting"
    /\ last' = Step("waiting-for-approval", NoPeer)
    /\ effects' = <<>>
    /\ UNCHANGED <<listeners, hasJoined, media, pendingRequests, localStream, subscribed, connected, participants, pcs, peersRef,
                   iceCandidateQueue, timers, tasks, nextCand, sinceGather>>

JoinApproved ==
    /\ Delivering
    /\ connectionStatus' = "joined"
    /\ last' = Step("join-approved", NoPeer)
    /\ effects' = <<Eff("sound", "", NoPeer, 0)>>
    /\ UNCHANGED <<listeners, hasJoined, media, pendingRequests, localStream, subscribed, connected, participants, pcs, peersRef,
                   iceCandidateQueue, timers, tasks, nextCand, sinceGather>>

\* mutant: the handler does not disconnect
StillConnected == TRUE

\* currentSocket.disconnect(): the socket is connected afterwards?
ConnectedAfterDisconnect == FALSE

JoinRejected ==
    /\ Delivering
    /\ connectionStatus' = "rejected"
    /\ connected' = ConnectedAfterDisconnect
    /\ last' = Step("join-rejected", NoPeer)
    /\ effects' = <<Eff("disconnect", "", NoPeer, 0)>>
    /\ UNCHANGED <<listeners, hasJoined, media, pendingRequests, localStream, subscribed, participants, pcs, peersRef,
                   iceCandidateQueue, timers, tasks, nextCand, sinceGather>>

\* the existing-users payloads: sequences of {userId, userName}
Users == [userId : Peers, userName : Names]

Snapshots == UNION {[1..n -> Users] : n \in 0..MaxSnapshot}

PlainSnapshots == {users \in Snapshots : \A i \in 1..Len(users) : users[i].userName = PlainName}

\* uniqueUsers.map(u => ({id: u.userId, name: u.userName, stream: null, ...}))
SeedRoster(users) ==
    [i \in 1..Len(UniqueUsers(users)) |->
        NewParticipant(UniqueUsers(users)[i].userId, UniqueUsers(users)[i].userName)]

ExistingUsers(users) ==
    /\ Delivering
    /\ participants' = SeedRoster(users)
    /\ connectionStatus' = "joined"
    /\ last' = StepWith("existing-users", NoPeer, users)
    /\ effects' = <<>>
    /\ UNCHANGED <<listeners, hasJoined, media, pendingRequests, localStream, subscribed, connected, pcs, peersRef,
                   iceCandidateQueue, timers, tasks, nextCand, sinceGather>>

\* ------------------------------------------------------------- createPeerConnection
\* a suspended handler: h the handler, peer and pc the connection it works on, at the
\* operation it awaits (for replaceTrack: the track the operation was given)
Task(h, peer, pc, at) == [h |-> h, peer |-> peer, pc |-> pc, at |-> at]

\* mutant: a handler that has run to its end stays suspended and runs again
DoneNever(t) == tasks

\* a handler suspends at an await / a suspended handler runs on
Suspend(t) == tasks (+) SetToBag({t})

Done(t) == tasks (-) SetToBag({t})

Suspended == BagCardinality(tasks)

\* mutant: the early return is missing
AlreadyConnectedNever(userId) == FALSE

\* if (peersRef.current.has(userId)) return;
AlreadyConnected(userId) == userId \in DOMAIN peersRef

\* mutant: every connection is created as the initiator
PcsAfterCreateInitiator(userId, isInitiator) ==
    IF AlreadyConnected(userId) THEN pcs ELSE Append(pcs, NewPC(userId, TRUE))

\* const pc = new RTCPeerConnection(...); stream.getTracks().forEach(addTrack)
PcsAfterCreate(userId, isInitiator) ==
    IF AlreadyConnected(userId) THEN pcs ELSE Append(pcs, NewPC(userId, isInitiator))

\* mutant: the map entry is not written before createPeerConnection suspends
PeersAfterCreateLate(userId) == peersRef

\* peersRef.current.set(userId, pc), before any await
PeersAfterCreate(userId) ==
    IF AlreadyConnected(userId) THEN peersRef ELSE MapSet(peersRef, userId, Len(pcs) + 1)

\* what createPeerConnection does before its first await
CreateEffects(userId, isInitiator) ==
    IF AlreadyConnected(userId) THEN <<>>
    ELSE <<Eff("new-pc", "", userId, Len(pcs) + 1)>>
         \o [k \in 1..Len(localStream) |-> Eff("addTrack", localStream[k], userId, Len(pcs) + 1)]
         \o (IF isInitiator THEN <<Eff("call", "createOffer", userId, Len(pcs) + 1)>> ELSE <<>>)

\* How an awaited operation on connection pc settles.  pre: the operation is legal
\* in the connection's state.  It may also fail for a reason of its own (a malformed
\* description or candidate).  A promise that never settles is a task that never
\* resumes: no step.
Outcomes(pc, pre) ==
    IF ~pcs[pc].closed /\ pre THEN {"ok", "reject"} ELSE {"reject"}

\* ------------------------------------------------------------- user-joined
UserJoined(p, nm) ==
    /\ Delivering
    /\ AlreadyConnected(p) \/ (Len(pcs) < MaxPcs /\ Suspended < MaxTasks)
    /\ participants' = AddParticipant(participants, p, nm)
    /\ pcs' = PcsAfterCreate(p, TRUE)
    /\ peersRef' = PeersAfterCreate(p)
    /\ tasks' = IF AlreadyConnected(p) THEN tasks
                ELSE Suspend(Task("user-joined", p, Len(pcs) + 1, "createOffer"))
    /\ last' = Step("user-joined", p)
    /\ effects' = <<Eff("sound", "", NoPeer, 0)>> \o CreateEffects(p, TRUE)
    /\ UNCHANGED <<listeners, hasJoined, media, pendingRequests, localStream, subscribed, connected, connectionStatus,
                   iceCandidateQueue, timers, nextCand, sinceGather>>

\* the initiator branch of createPeerConnection after an await:
\*   const offer = await pc.createOffer(); await pc.setLocalDescription(offer); emit offer
\* inside try/catch
ResumeUserJoined(t, out) ==
    /\ BagIn(t, tasks)
    /\ t.h = "user-joined"
    /\ LET pre == t.at = "createOffer" \/ pcs[t.pc].sig \in {"stable", "have-local-offer"}
       IN /\ out \in Outcomes(t.pc, pre)
          /\ last' = Step("resume-user-joined", t.peer)
          /\ IF out = "ok" /\ t.at = "createOffer"
             THEN /\ tasks' = Done(t) (+) SetToBag({[t EXCEPT !.at = "setLocalDescription"]})
                  /\ effects' = <<Eff("call", "setLocalDescription", t.peer, t.pc)>>
                  /\ UNCHANGED pcs
             ELSE IF out = "ok"
             THEN /\ tasks' = Done(t)
                  /\ pcs' = [pcs EXCEPT ![t.pc].sig = "have-local-offer",
                                        ![t.pc].hasLocal = TRUE]
                  /\ effects' = <<Eff("emit", "offer", t.peer, t.pc)>>
             ELSE /\ tasks' = Done(t)
                  /\ effects' = <<Eff("caught", t.at, t.peer, t.pc)>>
                  /\ UNCHANGED pcs
    /\ UNCHANGED <<listeners, hasJoined, media, pendingRequests, localStream, subscribed, connected, connectionStatus, participants, peersRef,
                   iceCandidateQueue, timers, nextCand, sinceGather>>

\* ------------------------------------------------------------- offer
Offer(p, nm) ==
    /\ Delivering
    /\ Suspended < MaxTasks
    /\ HasPeer(p) \/ Len(pcs) < MaxPcs
    /\ participants' = AddParticipant(participants, p, nm)
    /\ IF HasPeer(p)
       THEN /\ tasks' = Suspend(Task("offer", p, peersRef[p], "setRemoteDescription"))
            /\ effects' = <<Eff("call", "setRemoteDescription", p, peersRef[p])>>
            /\ UNCHANGED <<pcs, peersRef>>
       ELSE /\ pcs' = PcsAfterCreate(p, FALSE)
            /\ peersRef' = PeersAfterCreate(p)
            /\ tasks' = Suspend(Task("offer", p, 0, "createPeerConnection"))
            /\ effects' = CreateEffects(p, FALSE)
    /\ last' = Step("offer", p)
    /\ UNCHANGED <<listeners, hasJoined, media, pendingRequests, localStream, subscribed, connected, connectionStatus,
                   iceCandidateQueue, timers, nextCand, sinceGather>>

\* the offer handler after an await; no try/catch around it
ResumeOffer(t, out) ==
    /\ BagIn(t, tasks)
    /\ t.h = "offer"
    /\ IF t.at = "createPeerConnection"
          THEN \* pc = peersRef.current.get(data.from); if (pc) await pc.setRemoteDescription
               /\ out = "ok"
               /\ last' = Step("resume-offer", t.peer)
               /\ IF HasPeer(t.peer)
                  THEN /\ tasks' = Done(t) (+) SetToBag({[t EXCEPT !.pc = peersRef[t.peer],
                                                                !.at = "setRemoteDescription"]})
                       /\ effects' = <<Eff("call", "setRemoteDescription", t.peer, peersRef[t.peer])>>
                  ELSE /\ tasks' = Done(t)
                       /\ effects' = <<>>
               /\ UNCHANGED pcs
          ELSE LET pre == t.at = "setRemoteDescription" \/ pcs[t.pc].sig = "have-remote-offer"
               IN /\ out \in Outcomes(t.pc, pre)
                  /\ last' = Step("resume-offer", t.peer)
                  /\ IF out = "ok" /\ t.at = "setRemoteDescription"
                     THEN /\ pcs' = [pcs EXCEPT ![t.pc].sig = "have-remote-offer",
                                                ![t.pc].hasRemote = TRUE]
                          /\ tasks' = Done(t) (+) SetToBag({[t EXCEPT !.at = "createAnswer"]})
                          /\ effects' = <<Eff("call", "createAnswer", t.peer, t.pc)>>
                     ELSE IF out = "ok" /\ t.at = "createAnswer"
                     THEN /\ tasks' = Done(t) (+) SetToBag({[t EXCEPT !.at = "setLocalDescription"]})
                          /\ effects' = <<Eff("call", "setLocalDescription", t.peer, t.pc)>>
                          /\ UNCHANGED pcs
                     ELSE IF out = "ok"
                     THEN /\ pcs' = [pcs EXCEPT ![t.pc].sig = "stable", ![t.pc].hasLocal = TRUE]
                          /\ tasks' = Done(t)
                          /\ effects' = <<Eff("emit", "answer", t.peer, t.pc)>>
                     ELSE /\ tasks' = Done(t)
                          /\ effects' = <<Eff("unhandled", t.at, t.peer, t.pc)>>
                          /\ UNCHANGED pcs
    /\ UNCHANGED <<listeners, hasJoined, media, pendingRequests, localStream, subscribed, connected, connectionStatus, participants, peersRef,
                   iceCandidateQueue, timers, nextCand, sinceGather>>

\* ------------------------------------------------------------- answer
\* mutant: the handler without its if (pc): a missing connection is dereferenced
AnswerUnguarded(p) ==
    /\ Delivering
    /\ ~HasPeer(p) \/ Suspended < MaxTasks
    /\ IF HasPeer(p)
       THEN /\ tasks' = Suspend(Task("answer", p, peersRef[p], "setRemoteDescription"))
            /\ effects' = <<Eff("call", "setRemoteDescription", p, peersRef[p])>>
       ELSE /\ effects' = <<Eff("unhandled", "setRemoteDescription", p, 0)>>
            /\ UNCHANGED tasks
    /\ last' = Step("answer", p)
    /\ UNCHANGED <<listeners, hasJoined, media, pendingRequests, localStream, subscribed, connected, connectionStatus,
                   participants, pcs, peersRef, iceCandidateQueue, timers, nextCand,
                   sinceGather>>

Answer(p) ==
    /\ Delivering
    /\ ~HasPeer(p) \/ Suspended < MaxTasks
    /\ IF HasPeer(p)
       THEN /\ tasks' = Suspend(Task("answer", p, peersRef[p], "setRemoteDescription"))
            /\ effects' = <<Eff("call", "setRemoteDescription", p, peersRef[p])>>
       ELSE /\ effects' = <<>>
            /\ UNCHANGED tasks
    /\ last' = Step("answer", p)
    /\ UNCHANGED <<listeners, hasJoined, media, pendingRequests, localStream, subscribed, connected, connectionStatus, participants, pcs, peersRef,
                   iceCandidateQueue, timers, nextCand, sinceGather>>

\* await pc.setRemoteDescription(answer) settles; no try/catch around it
ResumeAnswer(t, out) ==
    /\ BagIn(t, tasks)
    /\ t.h = "answer"
    /\ /\ out \in Outcomes(t.pc, pcs[t.pc].sig = "have-local-offer")
          /\ last' = Step("resume-answer", t.peer)
          /\ tasks' = Done(t)
          /\ IF out = "ok"
             THEN /\ pcs' = [pcs EXCEPT ![t.pc].sig = "stable", ![t.pc].hasRemote = TRUE]
                  /\ effects' = <<>>
             ELSE /\ effects' = <<Eff("unhandled", t.at, t.peer, t.pc)>>
                  /\ UNCHANGED pcs
    /\ UNCHANGED <<listeners, hasJoined, media, pendingRequests, localStream, subscribed, connected, connectionStatus, participants, peersRef,
                   iceCandidateQueue, timers, nextCand, sinceGather>>

\* ------------------------------------------------------------- remote ice-candidate
IceCandidate(p) ==
    /\ Delivering
    /\ ~HasPeer(p) \/ Suspended < MaxTasks
    /\ IF HasPeer(p)
       THEN /\ tasks' = Suspend(Task("ice-candidate", p, peersRef[p], "addIceCandidate"))
            /\ effects' = <<Eff("call", "addIceCandidate", p, peersRef[p])>>
       ELSE /\ effects' = <<>>
            /\ UNCHANGED tasks
    /\ last' = Step("ice-candidate", p)
    /\ UNCHANGED <<listeners, hasJoined, media, pendingRequests, localStream, subscribed, connected, connectionStatus, participants, pcs, peersRef,
                   iceCandidateQueue, timers, nextCand, sinceGather>>

\* await pc.addIceCandidate(...) settles, inside try/catch
ResumeIce(t, out) ==
    /\ BagIn(t, tasks)
    /\ t.h = "ice-candidate"
    /\ /\ out \in Outcomes(t.pc, pcs[t.pc].hasRemote)
          /\ last' = Step("resume-ice-candidate", t.peer)
          /\ tasks' = Done(t)
          /\ effects' = <<Eff(IF out = "ok" THEN "applied" ELSE "caught", t.at, t.peer, t.pc)>>
    /\ UNCHANGED <<listeners, hasJoined, media, pendingRequests, localStream, subscribed, connected, connectionStatus, participants, pcs, peersRef,
                   iceCandidateQueue, timers, nextCand, sinceGather>>

\* ------------------------------------------------------------- user-left
UserLeft(p) ==
    /\ Delivering
    /\ pcs' = IF HasPeer(p) THEN [pcs EXCEPT ![peersRef[p]] = ClosePC(@)] ELSE pcs
    /\ peersRef' = IF HasPeer(p) THEN MapDelete(peersRef, p) ELSE peersRef
    /\ participants' = RemoveParticipant(participants, p)
    /\ last' = Step("user-left", p)
    /\ effects' = IF HasPeer(p) THEN <<Eff("close", "", p, peersRef[p])>> ELSE <<>>
    /\ UNCHANGED <<listeners, hasJoined, media, pendingRequests, localStream, subscribed, connected, connectionStatus,
                   iceCandidateQueue, timers, tasks, nextCand, sinceGather>>

\* ------------------------------------------------------------- ICE batching
\* mutant: the queue of a peer is always read as empty
QueueOfNone(userId) == <<>>

\* iceCandidateQueue.current.get(userId) || []
QueueOf(userId) ==
    IF userId \in DOMAIN iceCandidateQueue THEN iceCandidateQueue[userId] ELSE <<>>

\* mutant: the armed timer is not cancelled when a new candidate arrives
ClearedOnGatherNone(userId) == {}

\* if (existingTimer) clearTimeout(existingTimer): the timers cancelled
ClearedOnGather(userId) == TimerOf(userId)

\* iceCandidateTimers.current.delete(userId), or its entry overwritten by set():
\* no armed timer of userId is the map's handle any more
Forget(ts, userId) ==
    {[t EXCEPT !.cur = IF t.peer = userId THEN FALSE ELSE t.cur] : t \in ts}

\* pc.onicecandidate with a candidate, on connection i
Gather(i) ==
    /\ i \in 1..Len(pcs)
    /\ ~pcs[i].closed
    /\ pcs[i].hasLocal
    /\ nextCand <= MaxCand
    /\ LET userId == pcs[i].peer
       IN /\ iceCandidateQueue' =
                MapSet(iceCandidateQueue, userId, Append(QueueOf(userId), nextCand))
          /\ timers' = Forget(timers \ ClearedOnGather(userId), userId)
                         \cup {[peer |-> userId, left |-> DebounceMs, cur |-> TRUE]}
          /\ sinceGather' = [sinceGather EXCEPT ![userId] = 0]
          /\ last' = Step("gather", userId)
          /\ effects' = [k \in 1..Cardinality(ClearedOnGather(userId)) |->
                            Eff("clearTimeout", "", userId, 0)]
                        \o <<Eff("setTimeout", "", userId, nextCand)>>
    /\ nextCand' = nextCand + 1
    /\ UNCHANGED <<listeners, hasJoined, media, pendingRequests, localStream, subscribed, connected, connectionStatus, participants, pcs, peersRef,
                   tasks>>

\* the setTimeout callback of an armed timer whose delay has elapsed
TimerFire(t) ==
    /\ t \in timers
    /\ t.left <= 0
    /\ LET candidates == QueueOf(t.peer)
       IN /\ effects' = [k \in 1..Len(candidates) |->
                            Eff("emit", "ice-candidate", t.peer, candidates[k])]
          /\ iceCandidateQueue' =
                IF Len(candidates) > 0 THEN MapDelete(iceCandidateQueue, t.peer)
                ELSE iceCandidateQueue
          /\ sinceGather' = [sinceGather EXCEPT ![t.peer] = -1]
    /\ timers' = Forget(timers \ {t}, t.peer)
    /\ last' = Step("flush", t.peer)
    /\ UNCHANGED <<listeners, hasJoined, media, pendingRequests, localStream, subscribed, connected, connectionStatus, participants, pcs, peersRef,
                   tasks, nextCand>>

Flush == \E t \in timers : TimerFire(t)

\* TickMs of time pass; a timer that is due fires before more time passes
Tick ==
    /\ timers # {}
    /\ \A t \in timers : t.left > 0
    /\ timers' = {[t EXCEPT !.left = t.left - TickMs] : t \in timers}
    /\ sinceGather' = [p \in Peers |->
                          IF sinceGather[p] < 0 THEN -1
                          ELSE Min(sinceGather[p] + TickMs, DebounceMs + 2 * TickMs)]
    /\ last' = Step("tick", NoPeer)
    /\ effects' = <<>>
    /\ UNCHANGED <<listeners, hasJoined, media, pendingRequests, localStream, subscribed, connected, connectionStatus, participants, pcs, peersRef,
                   iceCandidateQueue, tasks, nextCand>>

\* ------------------------------------------------------------- roster updates
MediaKinds == {"audio", "video"}

\* prev.map(p => p.id === userId ? {...p, [kind === 'audio' ? 'isMicOn' : 'isCameraOn']: isOn} : p)
WithMediaStatus(prev, userId, kind, isOn) ==
    [i \in 1..Len(prev) |->
        IF prev[i].id = userId
        THEN IF kind = "audio" THEN [prev[i] EXCEPT !.isMicOn = isOn]
             ELSE [prev[i] EXCEPT !.isCameraOn = isOn]
        ELSE prev[i]]

MediaStatusUpdate(p, kind, isOn) ==
    /\ Delivering
    /\ participants' = WithMediaStatus(participants, p, kind, isOn)
    /\ last' = StepWith("media-status-update", p, <<kind, isOn>>)
    /\ effects' = <<>>
    /\ UNCHANGED <<listeners, hasJoined, media, pendingRequests, localStream, subscribed, connected, connectionStatus,
                   pcs, peersRef, iceCandidateQueue, timers, tasks, nextCand, sinceGather>>

\* mutant: the stream is given to every participant
WithStreamAll(prev, userId, stream) ==
    [i \in 1..Len(prev) |-> [prev[i] EXCEPT !.stream = stream]]

\* prev.map(p => p.id === userId ? {...p, stream: event.streams[0]} : p)
WithStream(prev, userId, stream) ==
    [i \in 1..Len(prev) |->
        IF prev[i].id = userId THEN [prev[i] EXCEPT !.stream = stream] ELSE prev[i]]

\* pc.ontrack on connection i: a remote track arrives once the remote description is
\* set; the remote stream of connection i is named i
RemoteTrack(i) ==
    /\ i \in 1..Len(pcs)
    /\ ~pcs[i].closed
    /\ pcs[i].hasRemote
    /\ participants' = WithStream(participants, pcs[i].peer, i)
    /\ last' = StepWith("remote-track", pcs[i].peer, i)
    /\ effects' = <<>>
    /\ UNCHANGED <<listeners, hasJoined, media, pendingRequests, localStream, subscribed, connected, connectionStatus,
                   pcs, peersRef, iceCandidateQueue, timers, tasks, nextCand, sinceGather>>

\* ------------------------------------------------------------- host admission
\* setPendingRequests(prev => [...prev, data]); playNotificationSound()
JoinRequest(p, nm) ==
    /\ Delivering
    /\ Len(pendingRequests) < MaxPending
    /\ pendingRequests' = Append(pendingRequests, [userId |-> p, userName |-> nm])
    /\ last' = Step("join-request", p)
    /\ effects' = <<Eff("sound", "", NoPeer, 0)>>
    /\ UNCHANGED <<listeners, hasJoined, media, localStream, subscribed, connected, connectionStatus, participants,
                   pcs, peersRef, iceCandidateQueue, timers, tasks, nextCand, sinceGather>>

\* mutant: the decision leaves the request in the queue
WithAllRequests(prev, userId) == prev

\* prev.filter(req => req.userId !== userId)
WithoutRequests(prev, userId) ==
    SeqFilterIdx(prev, {i \in 1..Len(prev) : prev[i].userId # userId}, 1)

\* admitUser / rejectUser: emit the decision, then filter the queue
Decide(decision, userId) ==
    /\ pendingRequests' = WithoutRequests(pendingRequests, userId)
    /\ last' = Step(decision, userId)
    /\ effects' = <<Eff("emit", decision, userId, 0)>>
    /\ UNCHANGED <<listeners, hasJoined, media, localStream, subscribed, connected, connectionStatus, participants,
                   pcs, peersRef, iceCandidateQueue, timers, tasks, nextCand, sinceGather>>

AdmitUser(userId) == Decide("admit-user", userId)

RejectUser(userId) == Decide("reject-user", userId)

\* ------------------------------------------------------------- connection state
\* pc.onconnectionstatechange on connection i: logs the state, warns on failed or
\* disconnected, and does nothing else
ConnectionStateChange(i) ==
    /\ i \in 1..Len(pcs)
    /\ ~pcs[i].closed
    /\ last' = StepWith("connectionstatechange", pcs[i].peer, i)
    /\ effects' = <<Eff("log", "", pcs[i].peer, i)>>
    /\ UNCHANGED <<listeners, hasJoined, media, pendingRequests, localStream, subscribed, connected, connectionStatus,
                   participants, pcs, peersRef, iceCandidateQueue, timers, tasks,
                   nextCand, sinceGather>>

\* ------------------------------------------------------------- replaceTrack
\* Tracks are named: "audio" the microphone, "video" the camera (both from
\* getUserMedia), "screen" the display capture (getDisplayMedia({video: true})).
\* track.kind
KindOf(track) == IF track = "audio" THEN "audio" ELSE "video"

\* the streams the hook is given as its localStream prop
Streams == {LocalTracks, <<"audio">>}

\* the tracks the room view passes to replaceTrack: the screen track when sharing
\* starts, the camera track when it stops
NewTracks == {"screen", "video"}

\* the localStream prop changes between two runs of the effect (the cleanup of the
\* old run comes before the body of the new one)
SetStream(stream) ==
    /\ ~subscribed
    /\ stream # localStream
    /\ localStream' = stream
    /\ last' = StepWith("set-stream", NoPeer, stream)
    /\ effects' = <<>>
    /\ UNCHANGED <<listeners, hasJoined, media, pendingRequests, subscribed, connected, connectionStatus, participants,
                   pcs, peersRef, iceCandidateQueue, timers, tasks, nextCand, sinceGather>>

\* mutant: the first sender is taken whatever its kind
SenderOfAny(senders, kind) == IF senders = <<>> THEN 0 ELSE 1

\* pc.getSenders().find(s => s.track?.kind === kind): the index of the first sender
\* whose track has that kind, 0 when there is none
SenderOf(senders, kind) ==
    LET found == {k \in 1..Len(senders) : KindOf(senders[k]) = kind}
    IN IF found = {} THEN 0 ELSE CHOOSE k \in found : \A j \in found : k <= j

\* the connections peersRef.current.forEach visits that have a sender of the kind
ReplaceTargets(kind) ==
    {i \in {peersRef[p] : p \in DOMAIN peersRef} : SenderOf(pcs[i].senders, kind) # 0}

\* the promises sender.replaceTrack(newTrack) returns, one per connection visited
ReplaceTasks(newTrack) ==
    SetToBag({Task("replaceTrack", pcs[i].peer, i, newTrack) :
                 i \in ReplaceTargets(KindOf(newTrack))})

\* the calls of sender.replaceTrack(newTrack), in the map's insertion order
ReplaceCalls(newTrack) ==
    LET targets == ReplaceTargets(KindOf(newTrack))
    IN [k \in 1..Cardinality(targets) |->
           Eff("call", "replaceTrack", pcs[Ascending(targets)[k]].peer,
               Ascending(targets)[k])]

\* replaceTrack(newTrack): for every connection of the map, in insertion order, find
\* the sender and call sender.replaceTrack(newTrack), which returns a promise
ReplaceTrack(newTrack) ==
    /\ Suspended + BagCardinality(ReplaceTasks(newTrack)) <= MaxTasks
    /\ tasks' = tasks (+) ReplaceTasks(newTrack)
    /\ effects' = ReplaceCalls(newTrack)
    /\ last' = StepWith("replaceTrack", NoPeer, newTrack)
    /\ UNCHANGED <<listeners, hasJoined, media, pendingRequests, localStream, subscribed, connected,
                   connectionStatus, participants, pcs, peersRef, iceCandidateQueue,
                   timers, nextCand, sinceGather>>

\* sender.replaceTrack(newTrack) settles: the sender carries the new track, or the
\* rejection is caught by .catch(err => console.error(...)); t.at is the new track
ResumeReplaceTrack(t, out) ==
    /\ BagIn(t, tasks)
    /\ t.h = "replaceTrack"
    /\ out \in Outcomes(t.pc, TRUE)
    /\ tasks' = Done(t)
    /\ last' = StepWith("resume-replaceTrack", t.peer, t.at)
    /\ IF out = "ok"
       THEN /\ pcs' = [pcs EXCEPT ![t.pc].senders[SenderOf(pcs[t.pc].senders, KindOf(t.at))] = t.at]
            /\ effects' = <<>>
       ELSE /\ effects' = <<Eff("caught", "replaceTrack", t.peer, t.pc)>>
            /\ UNCHANGED pcs
    /\ UNCHANGED <<listeners, hasJoined, media, pendingRequests, localStream, subscribed, connected, connectionStatus,
                   participants, peersRef, iceCandidateQueue, timers, nextCand, sinceGather>>

\* the values of pc.connectionState a state change reports
ConnectionStates == {"connected", "disconnected", "failed"}

\* mutant: a failed or disconnected connection is torn down
ReleasedOnFailure(i, state) == IF state \in {"failed", "disconnected"} THEN {i} ELSE {}

\* the connections onconnectionstatechange closes and removes from the map: none;
\* on failed or disconnected it warns ("Attempt reconnection" is a comment only)
ReleasedOnStateChange(i, state) == {}

\* pc.onconnectionstatechange on connection i, reporting the new state
ConnectionStateChangeTo(i, state) ==
    /\ i \in 1..Len(pcs)
    /\ ~pcs[i].closed
    /\ pcs' = [j \in 1..Len(pcs) |->
                 IF j \in ReleasedOnStateChange(i, state) THEN ClosePC(pcs[j]) ELSE pcs[j]]
    /\ peersRef' = [p \in {q \in DOMAIN peersRef :
                               peersRef[q] \notin ReleasedOnStateChange(i, state)} |->
                      peersRef[p]]
    /\ participants' = participants
    /\ last' = StepWith("connectionstatechange", pcs[i].peer, state)
    /\ effects' = <<Eff("log", state, pcs[i].peer, i)>>
                   \o (IF state \in {"failed", "disconnected"}
                       THEN <<Eff("warn", state, pcs[i].peer, i)>> ELSE <<>>)
    /\ UNCHANGED <<listeners, hasJoined, media, pendingRequests, localStream, subscribed, connected, connectionStatus,
                   iceCandidateQueue, timers, tasks, nextCand, sinceGather>>

\* ------------------------------------------------------------- the room component
\* initializeMedia: getUserMedia resolves with the camera stream, both tracks enabled
MediaReady ==
    /\ ~media.stream
    /\ media' = [media EXCEPT !.stream = TRUE, !.isMicOn = TRUE, !.isCameraOn = TRUE]
    /\ last' = Step("media-ready", NoPeer)
    /\ effects' = <<>>
    /\ UNCHANGED <<listeners, hasJoined, pendingRequests, localStream, subscribed, connected,
                   connectionStatus, participants, pcs, peersRef, iceCandidateQueue,
                   timers, tasks, nextCand, sinceGather>>

\* onJoin={() => setHasJoined(true)}
PressJoin ==
    /\ ~hasJoined
    /\ hasJoined' = TRUE
    /\ last' = Step("press-join", NoPeer)
    /\ effects' = <<>>
    /\ UNCHANGED <<listeners, media, pendingRequests, localStream, subscribed, connected,
                   connectionStatus, participants, pcs, peersRef, iceCandidateQueue,
                   timers, tasks, nextCand, sinceGather>>

\* the view with the ControlsBar: joined, and neither waiting nor rejected
InRoomView == hasJoined /\ connectionStatus \notin {"waiting", "rejected"}

\* the mic and camera controls are given to the PreJoinScreen and to the ControlsBar
TogglesShown == ~hasJoined \/ InRoomView

\* socket.emit('toggle-media', {roomId, kind, isOn}); the kind is in the peer field
EmitToggle(kind, isOn) == Eff("emit", "toggle-media", kind, IF isOn THEN 1 ELSE 0)

\* socket.emit('screen-share-status', {roomId, isSharing})
EmitShare(isSharing) ==
    Eff("emit", "screen-share-status", NoPeer, IF isSharing THEN 1 ELSE 0)

\* toggleMic / toggleCamera: if (stream) { track.enabled = !track.enabled;
\* setIsMicOn(track.enabled) }
Toggled(m, kind) ==
    IF ~m.stream THEN m
    ELSE IF kind = "audio" THEN [m EXCEPT !.audio = ~m.audio, !.isMicOn = ~m.audio]
    ELSE [m EXCEPT !.video = ~m.video, !.isCameraOn = ~m.video]

\* handleMicToggle: toggleMic(); toggleMediaStatus('audio', !isMicOn), isMicOn being
\* the flag of the render the handler was created in
HandleMicToggle ==
    /\ TogglesShown
    /\ media' = Toggled(media, "audio")
    /\ last' = Step("toggle-mic", NoPeer)
    /\ effects' = <<EmitToggle("audio", ~media.isMicOn)>>
    /\ UNCHANGED <<listeners, hasJoined, pendingRequests, localStream, subscribed, connected,
                   connectionStatus, participants, pcs, peersRef, iceCandidateQueue,
                   timers, tasks, nextCand, sinceGather>>

\* handleCamToggle: toggleCamera(); toggleMediaStatus('video', !isCameraOn)
HandleCamToggle ==
    /\ TogglesShown
    /\ media' = Toggled(media, "video")
    /\ last' = Step("toggle-cam", NoPeer)
    /\ effects' = <<EmitToggle("video", ~media.isCameraOn)>>
    /\ UNCHANGED <<listeners, hasJoined, pendingRequests, localStream, subscribed, connected,
                   connectionStatus, participants, pcs, peersRef, iceCandidateQueue,
                   timers, tasks, nextCand, sinceGather>>

\* handleToggleScreenShare while not sharing, from the await of startScreenShare on:
\* getDisplayMedia was granted (setIsScreenSharing(true), replaceTrack(screenTrack),
\* toggleMediaStatus('video', true), emitScreenShareStatus(true)) or was refused
\* (startScreenShare logs and returns null)
ShareStart(granted) ==
    /\ InRoomView
    /\ ~media.isScreenSharing
    /\ last' = StepWith("share-start", NoPeer, granted)
    /\ IF granted
       THEN /\ Suspended + BagCardinality(ReplaceTasks("screen")) <= MaxTasks
            /\ media' = [media EXCEPT !.isScreenSharing = TRUE]
            /\ tasks' = tasks (+) ReplaceTasks("screen")
            /\ effects' = ReplaceCalls("screen")
                          \o <<EmitToggle("video", TRUE), EmitShare(TRUE)>>
       ELSE /\ effects' = <<Eff("error", "startScreenShare", NoPeer, 0)>>
            /\ UNCHANGED <<media, tasks>>
    /\ UNCHANGED <<listeners, hasJoined, pendingRequests, localStream, subscribed, connected,
                   connectionStatus, participants, pcs, peersRef, iceCandidateQueue,
                   timers, nextCand, sinceGather>>

\* handleToggleScreenShare while sharing, and screenTrack.onended (the browser's own
\* stop button), which runs the same statements: stopScreenShare(), and if the camera
\* stream has a video track replaceTrack(cameraVideoTrack),
\* toggleMediaStatus('video', true), emitScreenShareStatus(false)
ShareStop ==
    /\ media.isScreenSharing
    /\ media' = [media EXCEPT !.isScreenSharing = FALSE]
    /\ last' = Step("share-stop", NoPeer)
    /\ IF media.stream
       THEN /\ Suspended + BagCardinality(ReplaceTasks("video")) <= MaxTasks
            /\ tasks' = tasks (+) ReplaceTasks("video")
            /\ effects' = ReplaceCalls("video")
                          \o <<EmitToggle("video", TRUE), EmitShare(FALSE)>>
       ELSE /\ effects' = <<>>
            /\ UNCHANGED tasks
    /\ UNCHANGED <<listeners, hasJoined, pendingRequests, localStream, subscribed, connected,
                   connectionStatus, participants, pcs, peersRef, iceCandidateQueue,
                   timers, nextCand, sinceGather>>

\* ------------------------------------------------------------- specifications
\* The hook's state falls into parts written by disjoint groups of handlers: the
\* admission handlers write connectionStatus and connected and nothing else; the ICE
\* batching writes iceCandidateQueue and the timers and nothing else; the roster is
\* written by the peer events and read by none of them.  Each specification below
\* runs the session life cycle with one group of handlers and the events that
\* interfere with it.

ResumeInitiator ==
    \E t \in BagToSet(tasks), out \in {"ok", "reject"} : ResumeUserJoined(t, out)

ResumeResponder ==
    \E t \in BagToSet(tasks), out \in {"ok", "reject"} : ResumeOffer(t, out)

ResumeAnswerer ==
    \E t \in BagToSet(tasks), out \in {"ok", "reject"} : ResumeAnswer(t, out)

ResumeCandidate ==
    \E t \in BagToSet(tasks), out \in {"ok", "reject"} : ResumeIce(t, out)

\* connection life cycle: every peer event, every suspended handler, the session
NextConn ==
    \/ Join
    \/ Exit
    \/ \E p \in Peers : UserJoined(p, PlainName)
    \/ \E p \in Peers : Offer(p, PlainName)
    \/ \E p \in Peers : Answer(p)
    \/ \E p \in Peers : IceCandidate(p)
    \/ \E p \in Peers : UserLeft(p)
    \/ ResumeInitiator
    \/ ResumeResponder
    \/ ResumeAnswerer
    \/ ResumeCandidate

Spec == Init /\ [][NextConn]_vars

\* admission: the admission events in any order, the session, peers coming and going
NextAdmit ==
    \/ Join
    \/ Exit
    \/ WaitingForApproval
    \/ JoinApproved
    \/ JoinRejected
    \/ \E users \in PlainSnapshots : ExistingUsers(users)
    \/ \E p \in Peers : UserJoined(p, PlainName)
    \/ \E p \in Peers : UserLeft(p)
    \/ ResumeInitiator

SpecAdmit == Init /\ [][NextAdmit]_vars

\* ICE batching: connections that gather, the clock, teardown and room exit.
\* createPeerConnection installs the same onicecandidate for both roles; the
\* connections here are the initiator's.
NextIce ==
    \/ Join
    \/ Exit
    \/ \E p \in Peers : UserJoined(p, PlainName)
    \/ \E p \in Peers : UserLeft(p)
    \/ ResumeInitiator
    \/ \E i \in 1..MaxPcs : Gather(i)
    \/ Flush
    \/ Tick

SpecIce == Init /\ [][NextIce]_vars

\* roster seeding: every snapshot, with peers coming and going before and after it
NextSnapshot ==
    \/ Join
    \/ \E users \in Snapshots : ExistingUsers(users)
    \/ \E p \in Peers, nm \in Names : UserJoined(p, nm)
    \/ \E p \in Peers : UserLeft(p)

SpecSnapshot == Init /\ [][NextSnapshot]_vars

\* the roster: every event that writes it, duplicated and reordered at will.  The
\* roster is written by the synchronous part of a handler and by ontrack only, and
\* read by neither a continuation nor a connection, so here the socket delivers the
\* next event once the handlers of the last one have run to completion; remote
\* tracks arrive at any time.
RosterIdle == Suspended = 0

RosterUserJoined == RosterIdle /\ \E p \in Peers : UserJoined(p, PlainName)

RosterOffer == RosterIdle /\ \E p \in Peers : Offer(p, PlainName)

RosterExistingUsers == RosterIdle /\ \E users \in PlainSnapshots : ExistingUsers(users)

RosterMediaStatus ==
    RosterIdle /\ \E p \in Peers, kind \in MediaKinds, isOn \in BOOLEAN :
                     MediaStatusUpdate(p, kind, isOn)

RosterUserLeft == RosterIdle /\ \E p \in Peers : UserLeft(p)

NextRoster ==
    \/ Join
    \/ RosterUserJoined
    \/ RosterOffer
    \/ RosterExistingUsers
    \/ RosterMediaStatus
    \/ RosterUserLeft
    \/ \E i \in 1..MaxPcs : RemoteTrack(i)
    \/ ResumeInitiator
    \/ ResumeResponder

SpecRoster == Init /\ [][NextRoster]_vars

\* the host's side of the admission flow: requests arriving, decisions taken from
\* the room view, which is rendered while the effect is subscribed
HostAdmits == subscribed /\ \E userId \in Peers : AdmitUser(userId)

HostRejects == subscribed /\ \E userId \in Peers : RejectUser(userId)

NextHost ==
    \/ Join
    \/ Exit
    \/ JoinApproved
    \/ \E p \in Peers, nm \in Names : JoinRequest(p, nm)
    \/ HostAdmits
    \/ HostRejects

SpecHost == Init /\ [][NextHost]_vars

\* one room session with every per-peer event and callback: signaling, suspended
\* handlers and their failures, ICE batching, connection state changes.  The socket
\* delivers the next event once the handlers of the last one have run to completion;
\* the callbacks of the connections and the timers come at any time.
IsolateUserJoined == RosterIdle /\ \E p \in Peers : UserJoined(p, PlainName)

IsolateOffer == RosterIdle /\ \E p \in Peers : Offer(p, PlainName)

IsolateAnswer == RosterIdle /\ \E p \in Peers : Answer(p)

IsolateIceCandidate == RosterIdle /\ \E p \in Peers : IceCandidate(p)

IsolateUserLeft == RosterIdle /\ \E p \in Peers : UserLeft(p)

NextIsolate ==
    \/ Join
    \/ IsolateUserJoined
    \/ IsolateOffer
    \/ IsolateAnswer
    \/ IsolateIceCandidate
    \/ IsolateUserLeft
    \/ ResumeInitiator
    \/ ResumeResponder
    \/ ResumeAnswerer
    \/ ResumeCandidate
    \/ \E i \in 1..MaxPcs : Gather(i)
    \/ Flush
    \/ Tick
    \/ \E i \in 1..MaxPcs : ConnectionStateChange(i)

SpecIsolate == Init /\ [][NextIsolate]_vars

ResumeSender ==
    \E t \in BagToSet(tasks), out \in {"ok", "reject"} : ResumeReplaceTrack(t, out)

\* outbound tracks: sessions with either stream, peers coming and going, tracks
\* replaced at any time
NextTrack ==
    \/ Join
    \/ Exit
    \/ \E stream \in Streams : SetStream(stream)
    \/ \E p \in Peers : UserJoined(p, PlainName)
    \/ \E p \in Peers : UserLeft(p)
    \/ ResumeInitiator
    \/ \E newTrack \in NewTracks : ReplaceTrack(newTrack)
    \/ ResumeSender

SpecTrack == Init /\ [][NextTrack]_vars

\* the snapshots of a room with at most one other user
ShortSnapshots == {users \in PlainSnapshots : Len(users) <= 1}

\* outbound offers: peers announced by user-joined (repeatedly), by an inbound offer
\* or by an existing-users snapshot, leaving, and the room session
NextOffer ==
    \/ Join
    \/ Exit
    \/ \E p \in Peers : UserJoined(p, PlainName)
    \/ \E p \in Peers : Offer(p, PlainName)
    \/ \E users \in ShortSnapshots : ExistingUsers(users)
    \/ \E p \in Peers : UserLeft(p)
    \/ ResumeInitiator
    \/ ResumeResponder

SpecOffer == Init /\ [][NextOffer]_vars

\* connections that are offered and never answered: the initiator's connections with
\* their ICE batching, time passing, connection state changes, peers leaving, room exit
NextHalfOpen ==
    \/ Join
    \/ Exit
    \/ \E p \in Peers : UserJoined(p, PlainName)
    \/ \E p \in Peers : UserLeft(p)
    \/ ResumeInitiator
    \/ \E i \in 1..MaxPcs : Gather(i)
    \/ Flush
    \/ Tick
    \/ \E i \in 1..MaxPcs, state \in ConnectionStates : ConnectionStateChangeTo(i, state)

SpecHalfOpen == Init /\ [][NextHalfOpen]_vars

\* negotiation in one room session, with the scheduling the event loop guarantees:
\* an awaited operation settles and the continuation of its handler runs.  Inbound
\* events are the environment's and come or not.
NextNegotiate ==
    \/ Join
    \/ \E p \in Peers : UserJoined(p, PlainName)
    \/ \E p \in Peers : Offer(p, PlainName)
    \/ \E p \in Peers : Answer(p)
    \/ \E p \in Peers : IceCandidate(p)
    \/ ResumeInitiator
    \/ ResumeResponder
    \/ ResumeAnswerer
    \/ ResumeCandidate

SpecNegotiate ==
    /\ Init
    /\ [][NextNegotiate]_vars
    /\ WF_vars(ResumeInitiator)
    /\ WF_vars(ResumeResponder)
    /\ WF_vars(ResumeAnswerer)
    /\ WF_vars(ResumeCandidate)

\* the room component from its first render: media becoming ready, joining, the mic,
\* camera and screen-share controls, peers coming and going
NextRoom ==
    \/ MediaReady
    \/ PressJoin
    \/ Join
    \/ HandleMicToggle
    \/ HandleCamToggle
    \/ \E granted \in BOOLEAN : ShareStart(granted)
    \/ ShareStop
    \/ \E p \in Peers : UserJoined(p, PlainName)
    \/ \E p \in Peers : UserLeft(p)
    \/ ResumeInitiator
    \/ ResumeSender

SpecRoom == InitRoom /\ [][NextRoom]_vars

\* ICE batching with time passing and due timers firing: the event loop runs a
\* setTimeout callback once its delay has elapsed
SpecFlush ==
    /\ Init
    /\ [][NextIce]_vars
    /\ WF_vars(Tick)
    /\ WF_vars(Flush)

\* ------------------------------------------------------------- claims
LivePcsIn(ps, p) == {i \in 1..Len(ps) : ps[i].peer = p /\ ~ps[i].closed}

Ops(effs, op) == {k \in 1..Len(effs) : effs[k].op = op}

\* C1: in every reachable state at most one PeerConnection that has been created and
\* not yet closed exists per peer id, and it is the one the connection map holds,
\* whatever events arrive while handlers for that peer are suspended at an await.
C1_AtMostOneLivePC ==
    \A p \in Peers :
        /\ Cardinality(LivePcs(p)) <= 1
        /\ LivePcs(p) = (IF HasPeer(p) THEN {peersRef[p]} ELSE {})

\* a handler for p is still suspended on a connection that user-left closed, and a
\* later event has created the next connection for p
C1_Witness ==
    \E p \in Peers : \E t \in BagToSet(tasks) :
        /\ t.peer = p
        /\ t.pc # 0
        /\ pcs[t.pc].closed
        /\ LivePcs(p) # {}

\* C2: createPeerConnection called for a peer id that already has a connection has no
\* side effects: no connection is constructed, no track added, no handler suspended,
\* no offer produced or sent, the map is unchanged; one connection with one set of
\* tracks exists afterwards.
C2_Idempotent ==
    [][\A p \in Peers :
          (HasPeer(p) /\ last' = Step("user-joined", p)) =>
              /\ pcs' = pcs
              /\ peersRef' = peersRef
              /\ tasks' = tasks
              /\ effects' = <<Eff("sound", "", NoPeer, 0)>>
              /\ Cardinality(LivePcsIn(pcs', p)) = 1
              /\ pcs'[peersRef'[p]].senders = LocalTracks]_vars

\* a second user-joined for a connected peer has just been handled
C2_Witness ==
    \E p \in Peers :
        /\ last = Step("user-joined", p)
        /\ HasPeer(p)
        /\ Ops(effects, "new-pc") = {}
        /\ \E t \in BagToSet(tasks) : t.peer = p /\ t.h = "user-joined"

\* C3: right after user-left for p has been handled, the roster holds no participant
\* with id p, the connection map holds no connection for p, and every connection
\* ever created for p is closed.
C3_LeftMeansGone ==
    \A p \in Peers :
        last = Step("user-left", p) =>
            /\ ~InRoster(participants, p)
            /\ ~HasPeer(p)
            /\ LivePcs(p) = {}

\* user-left for p handled after a user-joined for p had created its connection
C3_Witness ==
    \E p \in Peers :
        /\ last = Step("user-left", p)
        /\ Ops(effects, "close") # {}
        /\ \E i \in 1..Len(pcs) : pcs[i].peer = p /\ pcs[i].initiator /\ pcs[i].closed

\* the socket events the hook subscribes to
InboundEvents ==
    {"waiting-for-approval", "join-approved", "join-rejected", "join-request",
     "user-joined", "media-status-update", "offer", "answer", "ice-candidate",
     "user-left", "existing-users"}

C5_MonotonicStatus ==
    [][\/ connectionStatus' = connectionStatus
       \/ connectionStatus' = "rejected"
       \/ <<connectionStatus, connectionStatus'>> \in
              {<<"connecting", "waiting">>, <<"waiting", "joined">>,
               <<"connecting", "joined">>}]_vars

Detaches(effs) ==
    {k \in 1..Len(effs) : effs[k].op = "off" \/ (effs[k].op = "emit" /\ effs[k].ev = "leave-room")}

Releases(effs) == Ops(effs, "close") \cup Ops(effs, "clearTimeout")

\* C6 as stated: on room exit every close() and every clearTimeout() comes before
\* the handlers are unsubscribed and leave-room is sent.
C6_CleanupBeforeDetach ==
    last.ev = "exit" =>
        \A r \in Releases(effects), d \in Detaches(effects) : r < d

\* C6 amended: on room exit the hook unsubscribes its handlers and sends leave-room
\* first and then, in the same uninterrupted cleanup, closes every PeerConnection
\* and cancels every pending flush timer.
C6_DetachThenCleanup ==
    last.ev = "exit" =>
        /\ Cardinality(Ops(effects, "off")) = 1
        /\ Cardinality(Detaches(effects)) = 2
        /\ \A r \in Releases(effects), d \in Detaches(effects) : d < r
        /\ \A i \in 1..Len(pcs) : pcs[i].closed
        /\ timers = {}

\* a room exit that had a connection to close and a timer to cancel
C6_Witness ==
    /\ last.ev = "exit"
    /\ Ops(effects, "close") # {}
    /\ Ops(effects, "clearTimeout") # {}

\* C7: from the room exit until the next join the connection map, the timer map and
\* the candidate queues are empty, every connection is closed, no timer is armed,
\* and no flush happens.
C7_NoPartialCleanup ==
    ~subscribed =>
        /\ peersRef = EmptyMap
        /\ iceCandidateQueue = EmptyMap
        /\ timers = {}
        /\ \A i \in 1..Len(pcs) : pcs[i].closed
        /\ last.ev \notin {"flush", "gather", "tick"}

\* after an exit that left a handler suspended, the handler has resumed on its
\* closed connection
C7_Witness ==
    /\ ~subscribed
    /\ last.ev = "resume-user-joined"
    /\ nextCand > 1
    /\ Len(pcs) = MaxPcs

\* C8: right after user-left for p no candidate is queued and no timer is armed for
\* p, and a flush sends candidates only to a peer that still has a connection.
C8_TeardownClearsIce ==
    \A p \in Peers :
        /\ last = Step("user-left", p) =>
               (p \notin DOMAIN iceCandidateQueue /\ \A t \in timers : t.peer # p)
        /\ (last = Step("flush", p) /\ effects # <<>>) => HasPeer(p)

\* C9: a flush for p happens when DebounceMs have passed since the last candidate
\* was gathered for p (at the first clock tick at which they have), sends every
\* queued candidate in order and empties the queue; while candidates are queued a
\* timer is armed that is due DebounceMs after the last of them.
C9_Debounce ==
    [][\A p \in Peers :
          /\ last' = Step("flush", p) =>
                /\ sinceGather[p] >= DebounceMs
                /\ sinceGather[p] < DebounceMs + TickMs
                /\ QueueOf(p) # <<>>
                /\ effects' = [k \in 1..Len(QueueOf(p)) |->
                                  Eff("emit", "ice-candidate", p, QueueOf(p)[k])]
                /\ p \notin DOMAIN iceCandidateQueue'
          /\ (p \in DOMAIN iceCandidateQueue') =>
                /\ sinceGather'[p] >= 0
                /\ \E t \in timers' : t.peer = p /\ t.left = DebounceMs - sinceGather'[p]
          /\ \A t \in timers' : t.peer = p => t.left = DebounceMs - sinceGather'[p]]_vars

\* two candidates gathered less than DebounceMs apart have gone out in one flush
C9_Witness ==
    \E p \in Peers :
        /\ last = Step("flush", p)
        /\ Len(effects) = 2
        /\ effects[1].n + 1 = effects[2].n

RECURSIVE FirstIndex(_, _, _)
\* the least index k >= from with users[k].userId = id
FirstIndex(users, id, from) ==
    IF users[from].userId = id THEN from ELSE FirstIndex(users, id, from + 1)

\* C10: after an existing-users snapshot the roster holds exactly one participant
\* per distinct userId of the snapshot, carrying the name of the id's first
\* occurrence, in the order of the first occurrences, and the status is joined.
C10_SnapshotDeduplicated ==
    last.ev = "existing-users" =>
        LET users == last.arg
            ids == {users[k].userId : k \in 1..Len(users)}
        IN /\ connectionStatus = "joined"
           /\ Len(participants) = Cardinality(ids)
           /\ {participants[i].id : i \in 1..Len(participants)} = ids
           /\ \A i \in 1..Len(participants) :
                 participants[i] =
                     NewParticipant(participants[i].id,
                                    users[FirstIndex(users, participants[i].id, 1)].userName)
           /\ \A i, j \in 1..Len(participants) :
                 i < j => FirstIndex(users, participants[i].id, 1)
                              < FirstIndex(users, participants[j].id, 1)

\* the snapshot [A, A, B], the two entries of A under different names, has seeded
\* the roster {A, B}, replacing a roster that was there before
C10_Witness ==
    /\ last.ev = "existing-users"
    /\ Len(last.arg) = 3
    /\ last.arg[1].userId = last.arg[2].userId
    /\ last.arg[1].userName # last.arg[2].userName
    /\ last.arg[3].userId # last.arg[1].userId
    /\ Len(participants) = 2
    /\ participants[1].name = last.arg[1].userName
    /\ pcs # <<>>

\* C11: in every reachable state the roster holds at most one participant per peer
\* id, whatever sequence of user-joined, offer, existing-users, media-status-update,
\* remote-track and user-left events has been handled.
C11_UniqueIds ==
    \A i, j \in 1..Len(participants) :
        participants[i].id = participants[j].id => i = j

\* a user-joined repeated for a peer that is connected and in the roster, with a
\* second peer in the roster, a remote stream attached and a microphone reported off
C11_Witness ==
    \E p \in Peers :
        /\ last = Step("user-joined", p)
        /\ Ops(effects, "new-pc") = {}
        /\ Len(participants) = 2
        /\ \E i \in 1..Len(participants) : participants[i].stream # 0
        /\ \E i \in 1..Len(participants) : ~participants[i].isMicOn

Requesters(reqs) == {reqs[k].userId : k \in 1..Len(reqs)}

\* C12: the pending queue never holds two requests of the same requester id.
C12_NoDuplicateRequest ==
    \A i, j \in 1..Len(pendingRequests) :
        pendingRequests[i].userId = pendingRequests[j].userId => i = j

Decisions == {"admit-user", "reject-user"}

\* C13: admit(id) / reject(id) for a pending requester sends exactly one decision
\* message, the one for id, removes every request of id from the queue and leaves
\* the other requests in their order.
C13_DecisionDequeues ==
    [][\A id \in Peers :
          (last'.ev \in Decisions /\ last'.peer = id /\ id \in Requesters(pendingRequests)) =>
              LET kept == {k \in 1..Len(pendingRequests) : pendingRequests[k].userId # id}
              IN /\ effects' = <<Eff("emit", last'.ev, id, 0)>>
                 /\ id \notin Requesters(pendingRequests')
                 /\ Len(pendingRequests') = Cardinality(kept)
                 /\ \A k \in 1..Len(pendingRequests') :
                       pendingRequests'[k] = pendingRequests[Ascending(kept)[k]]]_vars

\* a decision has removed a requester from the queue and kept two requests of
\* another, under different names, in place
C13_Witness ==
    /\ last.ev \in Decisions
    /\ Len(pendingRequests) = 2
    /\ last.peer \notin Requesters(pendingRequests)
    /\ pendingRequests[1].userName # pendingRequests[2].userName

\* C14: admit(id) / reject(id) for an id with no pending request leaves the queue
\* unchanged and sends no decision message.
C14_UnknownIgnored ==
    [][\A id \in Peers :
          (last'.ev \in Decisions /\ last'.peer = id /\ id \notin Requesters(pendingRequests)) =>
              /\ pendingRequests' = pendingRequests
              /\ effects' = <<>>]_vars

\* C15: an answer from a peer id that has no connection in the map changes no state
\* (connections, map, roster, status, pending requests, candidate queues, timers,
\* suspended handlers), sends no message and raises no fault.
C15_StaleAnswerIgnored ==
    [][\A p \in Peers :
          (last' = Step("answer", p) /\ p \notin DOMAIN peersRef) =>
              /\ UNCHANGED <<pcs, peersRef, participants, connectionStatus, connected,
                             pendingRequests, iceCandidateQueue, timers, tasks>>
              /\ effects' = <<>>]_vars

\* an answer from p has arrived after user-left closed p's connection, with the
\* offer to p still being prepared by a suspended handler
C15_Witness ==
    \E p \in Peers :
        /\ last = Step("answer", p)
        /\ ~HasPeer(p)
        /\ \E t \in BagToSet(tasks) : t.peer = p /\ t.h = "user-joined" /\ pcs[t.pc].closed

\* C18: a failure of applying a remote offer, creating or staging an answer, applying
\* a remote answer or applying a remote candidate is caught inside its handler: no
\* step ends in an unhandled rejection.
C18_FaultsAbsorbed ==
    \A k \in 1..Len(effects) : effects[k].op # "unhandled"

\* what the hook holds for peer q
EntriesOf(roster, q) == {roster[i] : i \in {j \in 1..Len(roster) : roster[j].id = q}}

ConnectionsOf(ps, q) == {<<i, ps[i]>> : i \in {j \in 1..Len(ps) : ps[j].peer = q}}

HeldFor(map, q) == IF q \in DOMAIN map THEN <<map[q]>> ELSE <<>>

HandlersOf(ts, q) == {<<t, CopiesIn(t, ts)>> : t \in {u \in BagToSet(ts) : u.peer = q}}

\* C19: a step taken for peer p (an event from p, a callback of p's connection or of
\* p's timer, the continuation of a handler of p, failing or not) leaves unchanged
\* what the hook holds for every other peer q: its connections and map entry, its
\* candidate queue, its timers, its roster entry, its suspended handlers; it leaves
\* the status and the pending requests unchanged and sends nothing to q.
C19_PeerIsolation ==
    [][\A p \in Peers :
          last'.peer = p =>
              /\ connectionStatus' = connectionStatus
              /\ pendingRequests' = pendingRequests
              /\ \A q \in Peers \ {p} :
                    /\ ConnectionsOf(pcs', q) = ConnectionsOf(pcs, q)
                    /\ HeldFor(peersRef', q) = HeldFor(peersRef, q)
                    /\ HeldFor(iceCandidateQueue', q) = HeldFor(iceCandidateQueue, q)
                    /\ {t \in timers' : t.peer = q} = {t \in timers : t.peer = q}
                    /\ EntriesOf(participants', q) = EntriesOf(participants, q)
                    /\ HandlersOf(tasks', q) = HandlersOf(tasks, q)
                    /\ \A k \in 1..Len(effects') : effects'[k].peer # q]_vars

\* a handler of p has ended in an unhandled rejection while q has a connection, a
\* roster entry, queued candidates and an armed timer
C19_Witness ==
    \E p \in Peers : \E q \in Peers \ {p} :
        /\ last.peer = p
        /\ Ops(effects, "unhandled") # {}
        /\ HasPeer(q)
        /\ InRoster(participants, q)
        /\ q \in DOMAIN iceCandidateQueue
        /\ TimerOf(q) # {}

\* C20: right after an offer from p has been handled as first contact (no participant
\* and no connection of p before), the roster holds a participant p and the map a
\* live connection for p that was created as non-initiator; no offer is ever sent
\* on a connection created as non-initiator.
C20_FirstContact ==
    [][/\ \A p \in Peers :
             (last' = Step("offer", p) /\ ~InRoster(participants, p)
                                       /\ p \notin DOMAIN peersRef) =>
                 /\ EntriesOf(participants', p) = {NewParticipant(p, PlainName)}
                 /\ p \in DOMAIN peersRef'
                 /\ peersRef'[p] = Len(pcs) + 1
                 /\ Len(pcs') = Len(pcs) + 1
                 /\ pcs'[peersRef'[p]].peer = p
                 /\ ~pcs'[peersRef'[p]].initiator
                 /\ ~pcs'[peersRef'[p]].closed
       /\ \A k \in 1..Len(effects') :
             (effects'[k].op = "emit" /\ effects'[k].ev = "offer") =>
                 pcs'[effects'[k].n].initiator]_vars

\* the answer to a first-contact offer of p has been sent, on a connection created
\* as non-initiator, while the other peer is connected as initiator
C20_Witness ==
    \E p \in Peers :
        /\ last = Step("resume-offer", p)
        /\ Ops(effects, "emit") # {}
        /\ InRoster(participants, p)
        /\ HasPeer(p)
        /\ ~pcs[peersRef[p]].initiator
        /\ pcs[peersRef[p]].sig = "stable"
        /\ \E i \in 1..Len(pcs) : pcs[i].initiator /\ ~pcs[i].closed

\* the connections the map holds
Held == {peersRef[p] : p \in DOMAIN peersRef}

\* the senders of connection i that differ between two states of the connections
ChangedSenders(before, after) ==
    {<<i, k>> \in (1..Len(before)) \X (1..Len(LocalTracks)) :
        /\ k <= Len(before[i].senders)
        /\ after[i].senders[k] # before[i].senders[k]}

SameButSenders(before, after) ==
    /\ Len(after) = Len(before)
    /\ \A i \in 1..Len(before) :
          /\ [after[i] EXCEPT !.senders = before[i].senders] = before[i]
          /\ Len(after[i].senders) = Len(before[i].senders)

\* C16: replaceTrack(newTrack) calls replaceTrack on exactly one sender of every held
\* connection that has a sender of newTrack's kind, and on none of a connection that
\* has no such sender; it calls nothing else, creates, closes and renegotiates no
\* connection and raises nothing.  When a call settles, at most one sender changes:
\* the first one of newTrack's kind on a connection the call was made on, and it
\* carries newTrack; every other sender and connection is as before.
C16_ReplaceOutboundTrack ==
    [][/\ last'.ev = "replaceTrack" =>
             LET kind == IF last'.arg = "audio" THEN "audio" ELSE "video"
                 with == {i \in Held : \E k \in 1..Len(pcs[i].senders) :
                                          (pcs[i].senders[k] = "audio") = (kind = "audio")}
             IN /\ pcs' = pcs
                /\ peersRef' = peersRef
                /\ Len(effects') = Cardinality(with)
                /\ \A i \in with :
                      Cardinality({k \in 1..Len(effects') :
                          effects'[k] = Eff("call", "replaceTrack", pcs[i].peer, i)}) = 1
                /\ BagCardinality(tasks') = BagCardinality(tasks) + Cardinality(with)
       /\ last'.ev = "resume-replaceTrack" =>
             /\ SameButSenders(pcs, pcs')
             /\ peersRef' = peersRef
             /\ Cardinality(ChangedSenders(pcs, pcs')) <= 1
             /\ \A c \in ChangedSenders(pcs, pcs') :
                   LET old == pcs[c[1]].senders[c[2]]
                       new == pcs'[c[1]].senders[c[2]]
                   IN /\ new = last'.arg
                      /\ (old = "audio") = (new = "audio")
                      /\ \A j \in 1..(c[2] - 1) :
                            (pcs[c[1]].senders[j] = "audio") # (new = "audio")
                      /\ ~pcs[c[1]].closed
             /\ \A k \in 1..Len(effects') : effects'[k].op = "caught"]_vars

\* with two connections held, the screen track has replaced the camera track on one
\* of them while the other still sends the camera track and both send the microphone
C16_Witness ==
    /\ last.ev = "resume-replaceTrack"
    /\ last.arg = "screen"
    /\ effects = <<>>
    /\ Cardinality(Held) = 2
    /\ \E i \in Held : pcs[i].senders = <<"audio", "screen">>
    /\ \E i \in Held : pcs[i].senders = <<"audio", "video">>

\* replaceTrack with a video track has skipped two held connections that send the
\* microphone only
C16_SkipReached ==
    /\ last.ev = "replaceTrack"
    /\ effects = <<>>
    /\ Cardinality(Held) = 2
    /\ \A i \in Held : pcs[i].senders = <<"audio">>

\* a candidate from p has just been handled early: p has no connection, or p's
\* connection has no remote description yet
EarlyCandidate(p) ==
    /\ last = Step("ice-candidate", p)
    /\ ~HasPeer(p) \/ ~pcs[peersRef[p]].hasRemote

RemoteDescriptionSet(p) == HasPeer(p) /\ pcs[peersRef[p]].hasRemote

CandidateApplied(p) ==
    /\ last = Step("resume-ice-candidate", p)
    /\ Ops(effects, "applied") # {}

\* C17: a remote candidate of p that arrives early is not dropped: if the remote
\* description of p's connection is set afterwards, a candidate of p is applied to
\* the connection at some time after the early arrival.
C17_EarlyCandidateApplied ==
    \A p \in Peers :
        [](EarlyCandidate(p) => (<>RemoteDescriptionSet(p) => <>CandidateApplied(p)))

Emits(effs, ev) == {k \in 1..Len(effs) : effs[k].op = "emit" /\ effs[k].ev = ev}

\* the handlers of event h suspended on behalf of peer p
HandlersFor(ts, h, p) == {t \in BagToSet(ts) : t.h = h /\ t.peer = p}

\* C21: an answer is sent only by the handler of an offer from p as it completes, one
\* answer per completed handler, addressed to p; a handler that stages its answer
\* sends it; an offer from a connected peer is applied to the connection the map
\* holds: no connection is constructed and nothing is rejected in that step.
C21_AnswerPerOffer ==
    [][/\ \A k \in Emits(effects', "answer") :
             \E t \in HandlersFor(tasks, "offer", effects'[k].peer) :
                 /\ t.at = "setLocalDescription"
                 /\ t.pc = effects'[k].n
                 /\ tasks' = tasks (-) SetToBag({t})
                 /\ last' = Step("resume-offer", t.peer)
                 /\ Len(effects') = 1
       /\ \A p \in Peers :
             (last' = Step("resume-offer", p) /\ BagCardinality(tasks') < BagCardinality(tasks)
                 /\ Ops(effects', "unhandled") = {} /\ p \in DOMAIN peersRef) =>
                     Cardinality(Emits(effects', "answer")) = 1
       /\ \A p \in Peers :
             (last' = Step("offer", p) /\ p \in DOMAIN peersRef) =>
                 /\ pcs' = pcs
                 /\ peersRef' = peersRef
                 /\ effects' = <<Eff("call", "setRemoteDescription", p, peersRef[p])>>
                 /\ tasks' = tasks (+) SetToBag({[h |-> "offer", peer |-> p, pc |-> peersRef[p],
                                                  at |-> "setRemoteDescription"]})]_vars

\* the answer to an offer from p has been sent on the connection that a user-joined
\* had created for p: the offer was taken as a renegotiation
C21_Witness ==
    \E p \in Peers :
        /\ last = Step("resume-offer", p)
        /\ Emits(effects, "answer") # {}
        /\ HasPeer(p)
        /\ pcs[peersRef[p]].initiator
        /\ effects[1].n = peersRef[p]

\* C22: an offer is sent only by the handler of the user-joined that created the
\* connection, as it completes: the connection is an initiator's, the handler was
\* suspended once on it and is gone afterwards.  A handler is suspended on behalf of
\* a user-joined only in the step that constructs the connection, so a repeated
\* user-joined, an inbound offer and an existing-users snapshot start none; a failure
\* of the handler is caught.
C22_OfferPerInitiator ==
    [][/\ \A k \in Emits(effects', "offer") :
             \E t \in HandlersFor(tasks, "user-joined", effects'[k].peer) :
                 /\ t.at = "setLocalDescription"
                 /\ t.pc = effects'[k].n
                 /\ pcs[t.pc].initiator
                 /\ pcs[t.pc].peer = t.peer
                 /\ CopiesIn(t, tasks) = 1
                 /\ tasks' = tasks (-) SetToBag({t})
                 /\ HandlersFor(tasks', "user-joined", t.peer) \cap {u \in BagToSet(tasks') : u.pc = t.pc} = {}
                 /\ last' = Step("resume-user-joined", t.peer)
                 /\ Len(effects') = 1
       /\ \A t \in BagToSet(tasks') :
             (t.h = "user-joined" /\ ~BagIn([t EXCEPT !.at = "createOffer"], tasks)
                                  /\ ~BagIn(t, tasks)) =>
                 /\ last' = Step("user-joined", t.peer)
                 /\ t.peer \notin DOMAIN peersRef
                 /\ t.pc = Len(pcs) + 1
                 /\ Len(pcs') = Len(pcs) + 1
                 /\ pcs'[t.pc].initiator
                 /\ CopiesIn(t, tasks') = 1
       /\ \A p \in Peers :
             (last' = Step("user-joined", p) /\ p \in DOMAIN peersRef) =>
                 (tasks' = tasks /\ pcs' = pcs /\ Emits(effects', "offer") = {})
       /\ last'.ev \in {"offer", "existing-users"} =>
             /\ Emits(effects', "offer") = {}
             /\ \A t \in BagToSet(tasks') : t.h = "user-joined" => CopiesIn(t, tasks') = CopiesIn(t, tasks)
             /\ \A i \in (Len(pcs) + 1)..Len(pcs') : ~pcs'[i].initiator
       /\ last'.ev = "resume-user-joined" => Ops(effects', "unhandled") = {}]_vars

\* the offer to p has gone out and no handler of a user-joined for p is left, after
\* an existing-users snapshot was handled and with a live connection that was
\* created from an inbound offer
C22_Witness ==
    \E p \in Peers :
        /\ last = Step("resume-user-joined", p)
        /\ Emits(effects, "offer") # {}
        /\ HandlersFor(tasks, "user-joined", p) = {}
        /\ connectionStatus = "joined"
        /\ \E i \in 1..Len(pcs) : ~pcs[i].initiator /\ ~pcs[i].closed

\* C23: a connection of p leaves the map, and a connection is closed, only in the
\* step that handles user-left for its peer or in the room exit; p leaves the roster
\* only by user-left(p).  Time passing, a flush, an offer that is never answered and
\* a connection state change to failed or disconnected do none of these.
C23_RemovedOnlyByLeftOrExit ==
    [][\A p \in Peers :
          /\ (p \in DOMAIN peersRef /\ p \notin DOMAIN peersRef') =>
                 (last' = Step("user-left", p) \/ last'.ev = "exit")
          /\ (p \in DOMAIN peersRef /\ p \in DOMAIN peersRef' /\ peersRef'[p] # peersRef[p]) =>
                 FALSE
          /\ \A i \in 1..Len(pcs) :
                 (pcs[i].peer = p /\ ~pcs[i].closed /\ pcs'[i].closed) =>
                     (last' = Step("user-left", p) \/ last'.ev = "exit")
          /\ (InRoster(participants, p) /\ ~InRoster(participants', p)) =>
                 last' = Step("user-left", p)]_vars

\* the offer to p went out, its candidates were flushed, no answer came, the
\* connection is reported failed: p's connection is still held and still open,
\* waiting for the answer, and p is still in the roster
C23_Witness ==
    \E p \in Peers :
        /\ last = StepWith("connectionstatechange", p, "failed")
        /\ HasPeer(p)
        /\ ~pcs[peersRef[p]].closed
        /\ pcs[peersRef[p]].sig = "have-local-offer"
        /\ InRoster(participants, p)
        /\ nextCand > 1
        /\ p \notin DOMAIN iceCandidateQueue
        /\ timers = {}

\* the candidates queued for any peer, with the peer
Queued(queues) ==
    UNION {{<<p, queues[p][k]>> : k \in 1..Len(queues[p])} : p \in DOMAIN queues}

\* C24: a flush for p sends each candidate queued for p as one ice-candidate message
\* to p, in the order of gathering, and leaves no queue for p.  A candidate enters a
\* queue only when it is gathered, as a fresh one, at the end of the queue of the
\* peer of the connection that gathered it; it is in one queue, once, and leaves it
\* when it is sent: none is sent twice, none to another peer.
C24_FlushSendsQueue ==
    [][/\ \A p \in Peers :
             last' = Step("flush", p) =>
                 /\ p \in DOMAIN iceCandidateQueue
                 /\ Len(effects') = Len(iceCandidateQueue[p])
                 /\ \A k \in 1..Len(effects') :
                       effects'[k] = [op |-> "emit", ev |-> "ice-candidate", peer |-> p,
                                      n |-> iceCandidateQueue[p][k]]
                 /\ p \notin DOMAIN iceCandidateQueue'
                 /\ \A q \in Peers \ {p} :
                       (q \in DOMAIN iceCandidateQueue') = (q \in DOMAIN iceCandidateQueue)
                 /\ \A q \in DOMAIN iceCandidateQueue' : iceCandidateQueue'[q] = iceCandidateQueue[q]
       /\ \A k \in Emits(effects', "ice-candidate") : last'.ev = "flush"
       /\ \A i \in 1..Len(pcs) :
             last' = Step("gather", pcs[i].peer) =>
                 \A p \in DOMAIN iceCandidateQueue' :
                     iceCandidateQueue'[p] =
                         (IF p \in DOMAIN iceCandidateQueue THEN iceCandidateQueue[p] ELSE <<>>)
                         \o (IF p = last'.peer THEN <<nextCand>> ELSE <<>>)
       /\ \A pc \in Queued(iceCandidateQueue') \ Queued(iceCandidateQueue) :
             /\ last' = Step("gather", pc[1])
             /\ pc[2] = nextCand
       /\ \A p \in DOMAIN iceCandidateQueue' : \A k \in 1..Len(iceCandidateQueue'[p]) :
             /\ iceCandidateQueue'[p][k] < nextCand'
             /\ \A q \in DOMAIN iceCandidateQueue' : \A j \in 1..Len(iceCandidateQueue'[q]) :
                   iceCandidateQueue'[q][j] = iceCandidateQueue'[p][k] => (q = p /\ j = k)
       /\ nextCand' >= nextCand]_vars

\* a flush for p has sent two candidates while a candidate of the other peer stays
\* queued
C24_Witness ==
    \E p \in Peers :
        /\ last = Step("flush", p)
        /\ Len(effects) = 2
        /\ \E q \in DOMAIN iceCandidateQueue : q # p /\ Len(iceCandidateQueue[q]) = 1

\* C25: at most one flush timer is armed per peer id, and it is the one the timer map
\* holds: a timer that was superseded is cancelled and never fires.
C25_OneTimerPerPeer ==
    \A p \in Peers :
        /\ Cardinality({t \in timers : t.peer = p}) <= 1
        /\ \A t \in timers : t.cur

\* a candidate gathered for p while p's timer was running has cancelled that timer
\* and armed the one timer p has now
C25_Witness ==
    \E p \in Peers :
        /\ last = Step("gather", p)
        /\ Ops(effects, "clearTimeout") # {}
        /\ Len(iceCandidateQueue[p]) = 2
        /\ sinceGather[p] = 0
        /\ {t.left : t \in {u \in timers : u.peer = p}} = {DebounceMs}

\* C27: a remote track on p's connection changes only the stream of the participant
\* with id p, and a media-status-update for p only its mic flag (audio) or camera
\* flag (video); every other participant, the order and the length of the roster are
\* unchanged, and the roster is unchanged when no participant has id p.
C27_PerPeerProjection ==
    [][\A p \in Peers :
          /\ last'.ev \in {"remote-track", "media-status-update"} /\ last'.peer = p =>
                /\ Len(participants') = Len(participants)
                /\ \A k \in 1..Len(participants) :
                      participants[k].id # p => participants'[k] = participants[k]
                /\ ~InRoster(participants, p) => participants' = participants
          /\ last'.ev = "remote-track" /\ last'.peer = p =>
                \A k \in 1..Len(participants) :
                    participants[k].id = p =>
                        participants'[k] = [participants[k] EXCEPT !.stream = last'.arg]
          /\ last'.ev = "media-status-update" /\ last'.peer = p =>
                \A k \in 1..Len(participants) :
                    participants[k].id = p =>
                        participants'[k] =
                            IF last'.arg[1] = "audio"
                            THEN [participants[k] EXCEPT !.isMicOn = last'.arg[2]]
                            ELSE [participants[k] EXCEPT !.isCameraOn = last'.arg[2]]]_vars

\* a remote track of p has arrived in a roster of two: p has the stream, the other
\* participant, whose camera was reported off before, has none
C27_Witness ==
    \E p \in Peers :
        /\ last.ev = "remote-track"
        /\ last.peer = p
        /\ Len(participants) = 2
        /\ \E k, j \in 1..2 :
              /\ participants[k].id = p
              /\ participants[k].stream = last.arg
              /\ participants[j].id # p
              /\ participants[j].stream # last.arg
              /\ ~participants[j].isCameraOn
              /\ participants[j].isMicOn

\* C28: every peer id that has a connection in the connection map has a participant
\* in the roster.
C28_MapInRoster ==
    \A p \in DOMAIN peersRef : InRoster(participants, p)

\* C26: while the user has not joined or no local stream is available, the socket is
\* not connected, no connection exists, and no step connects or emits anything.
C26_NoSignalingBeforeJoin ==
    ~HasLocalStream =>
        /\ ~connected
        /\ pcs = <<>>
        /\ \A k \in 1..Len(effects) : effects[k].op \notin {"connect", "emit"}

\* the track the video sender of connection i carries
VideoTrackOf(i) == pcs[i].senders[SenderOf(pcs[i].senders, "video")]

\* C29: once every replaceTrack that was called has settled, the video sender of
\* every connection of the map carries the screen track while screen sharing is
\* active and the camera track while it is not.
C29_SendersFollowSharing ==
    (\A t \in BagToSet(tasks) : t.h # "replaceTrack") =>
        \A p \in DOMAIN peersRef :
            VideoTrackOf(peersRef[p]) = IF media.isScreenSharing THEN "screen" ELSE "video"

\* track.enabled of the local track of a kind (the camera stream has one of each)
TrackEnabled(kind) == media[kind]

\* C30: every toggle-media message carries as isOn the enabled state the local track
\* of its kind has when the message is sent, where the local stream exists.
C30_ToggleMatchesTrack ==
    media.stream =>
        \A k \in Emits(effects, "toggle-media") :
            effects[k].n = IF TrackEnabled(effects[k].peer) THEN 1 ELSE 0

\* the keys of iceCandidateTimers.current
TimerKeys == {t.peer : t \in {u \in timers : u.cur}}

\* C31: the candidate-queue map and the flush-timer map have the same keys: a timer is
\* armed for p exactly when p has a queue, and a queue is never empty.
C31_QueueIffTimer ==
    /\ TimerKeys = DOMAIN iceCandidateQueue
    /\ {t.peer : t \in timers} = TimerKeys
    /\ \A p \in DOMAIN iceCandidateQueue : Len(iceCandidateQueue[p]) > 0

\* p's timer has fired and left p with neither queue nor timer, while the other peer
\* still has a queue and a timer that has been running for a while
C31_Witness ==
    \E p \in Peers :
        /\ last = Step("flush", p)
        /\ Len(effects) > 0
        /\ p \notin DOMAIN iceCandidateQueue
        /\ p \notin TimerKeys
        /\ \E t \in timers : t.peer # p /\ t.cur /\ t.left < DebounceMs
                             /\ t.peer \in DOMAIN iceCandidateQueue

\* candidate c is in p's queue
QueuedFor(p, c) ==
    p \in DOMAIN iceCandidateQueue /\ \E k \in 1..Len(iceCandidateQueue[p]) :
                                          iceCandidateQueue[p][k] = c

\* the last step was a flush that emitted candidate c to p
SentTo(p, c) ==
    /\ last = Step("flush", p)
    /\ \E k \in Emits(effects, "ice-candidate") : effects[k].peer = p /\ effects[k].n = c

\* C32: with time passing and due timers firing, a candidate queued for p is
\* eventually emitted as an ice-candidate message to p unless the room is exited
\* (user-left for p does not prevent it: it leaves queue and timer alone); and a flush
\* for p happens only when at least DebounceMs have passed since the last candidate
\* was gathered for p.
C32_EventuallyFlushed ==
    /\ \A p \in Peers : \A c \in 1..MaxCand :
          QueuedFor(p, c) ~> (SentTo(p, c) \/ last.ev = "exit")
    /\ [][\A p \in Peers :
             last' = Step("flush", p) => sinceGather[p] >= DebounceMs]_vars

\* gathering has stopped, the session is still on, and the last flush has emitted the
\* candidates that were queued: nothing is queued and no timer is armed
C32_Witness ==
    \E p \in Peers :
        /\ last = Step("flush", p)
        /\ subscribed
        /\ nextCand > MaxCand
        /\ Len(effects) >= 2
        /\ iceCandidateQueue = EmptyMap
        /\ timers = {}

\* C33: on the shared socket every event has at most one listener, that of the running
\* effect: each event the effect registers has one listener while the effect is
\* subscribed and none after its cleanup, and no listener of an exited run stays on
\* the socket, so none can be invoked.
C33_SymmetricSubscription ==
    \A e \in SignalEvents :
        /\ listeners[e].stale = 0
        /\ listeners[e].live = IF subscribed /\ e \in OnEvents THEN 1 ELSE 0

\* the effect has run again after an earlier session whose handlers filled the roster
C33_Witness ==
    /\ last = Step("join", NoPeer)
    /\ subscribed
    /\ participants # <<>>
    /\ \A e \in OnEvents : listeners[e] = [live |-> 1, stale |-> 0]

====
